---- MODULE Spec2Model ----
(***************************************************************************)
(* A model of the IP address planning core of cdk-extensions:              *)
(*   - TieredSubnets   (src/ec2/lib/ip-addresses/tiered-subnets.ts)        *)
(*   - IpamPool        (ec2/ipam-pool.ts, src/unnamed/part_000)            *)
(*   - Ipam            (ec2/ipam.ts,      src/unnamed/part_002)            *)
(*   - ResourceShare   (ram/resource-share.ts, src/unnamed/part_003)       *)
(* Optional values (x?: T) are sequences: << >> is undefined, <<v>> is v.  *)
(***************************************************************************)
EXTENDS Integers, Sequences, FiniteSets, TLC

VARIABLES
    ts,       \* the TieredSubnets instance (fields set by its constructor)
    alloc,    \* the last allocateSubnetsCidr call: its input and what it returned or threw
    pools,    \* the IpamPool objects constructed so far, by index
    poolOp,   \* the last IpamPool operation: its arguments and outcome
    ipam,     \* the Ipam object
    ipamOp,   \* the last Ipam operation: its arguments and outcome
    maskCall, \* a call of getBiggestMask: its arguments and what it returned or threw
    vpcCall,  \* what the provider handed the TieredSubnets constructor, and the
              \* allocateVpcCidr calls made on the instance
    share,    \* the ResourceShare object and the construct tree around it
    shareOp   \* the last ResourceShare operation

vars == <<ts, alloc, pools, poolOp, ipam, ipamOp, maskCall, vpcCall, share, shareOp>>
tieredVars == <<ts, alloc, vpcCall>>
poolVars == <<pools, poolOp>>
ipamVars == <<ipam, ipamOp>>
shareVars == <<share, shareOp>>

(***************************************************************************)
(* Bounds of the model.                                                    *)
(***************************************************************************)
MaxSubnets == 4       \* longest requestedSubnets list
MaxPools == 2         \* IpamPool objects in one tree
MaxDeferred == 1      \* deferred pool-CIDR entities per pool
MaxScopeIds == 6      \* distinct ids handed to addScope
MaxCalls == 2         \* calls of allocateSubnetsCidr on one instance
MaxProvisioned == 2   \* longest provisionedCidrs list handed to a constructor
MaxRegions == 2       \* longest props.regions list handed to the Ipam constructor
MaxChildCount == 9    \* largest count handed to getBiggestMask
MaxAllocations == 1   \* allocations made from one pool
MaxNodes == 2         \* stages, stacks and constructs in the tree besides the share's stack
MaxEnableCalls == 2   \* calls of enableAutoDiscovery on one share
MaxPrincipals == 1    \* longest list of principals that addPrincipal still extends

Tiers == {"public", "private"}
Zones == {"az1", "az2"}
SourcePrefixes == {16, 31}
TierMasks == {<<>>, <<16>>, <<17>>, <<18>>}
CidrMasks == {<<>>, <<17>>, <<18>>}

\* 10.0.0.0, the base address of the source block in both modes.
VpcBase == 10 * 16777216

Undefined == <<>>
Some(v) == <<v>>
IsDefined(o) == o # <<>>
\* JavaScript truthiness of an optional number and of an optional string.
Truthy(o) == o # <<>> /\ o[1] # 0
TruthyStr(o) == o # <<>> /\ o[1] # ""

(***************************************************************************)
(* Array.from(new Set(list)): the distinct elements in first-seen order.   *)
(***************************************************************************)
RECURSIVE DistinctFrom(_, _)
DistinctFrom(s, acc) ==
    IF s = <<>> THEN acc
    ELSE DistinctFrom(Tail(s),
                      IF \E i \in 1..Len(acc) : acc[i] = Head(s)
                      THEN acc ELSE Append(acc, Head(s)))

Distinct(s) == DistinctFrom(s, <<>>)

IndexOf(s, x) == CHOOSE i \in 1..Len(s) : s[i] = x

Filter(s, tier) == SelectSeq(s, LAMBDA x : x.name = tier)

Map(s, Op(_)) == [i \in 1..Len(s) |-> Op(s[i])]

(***************************************************************************)
(* Address blocks.                                                         *)
(***************************************************************************)
Block(base, prefix) == [op |-> "block", base |-> base, prefix |-> prefix]
NoBlock == [op |-> "error", base |-> 0, prefix |-> 0]

BlockSize(b) == 2 ^ (32 - b.prefix)
BlockEnd(b) == b.base + BlockSize(b) - 1
Inside(b, parent) ==
    b.op = "block" /\ parent.op = "block"
    /\ parent.base <= b.base /\ BlockEnd(b) <= BlockEnd(parent)
Overlap(a, b) ==
    a.op = "block" /\ b.op = "block"
    /\ a.base <= BlockEnd(b) /\ b.base <= BlockEnd(a)

(***************************************************************************)
(* utils/networking: getBiggestMask and divideCidr.                        *)
(***************************************************************************)
\* Math.ceil(Math.log2(n)), by doubling.
RECURSIVE CeilLog2From(_, _)
CeilLog2From(n, k) == IF 2 ^ k >= n THEN k ELSE CeilLog2From(n, k + 1)
CeilLog2(n) == CeilLog2From(n, 0)

\* Math.floor(Math.log2(n)).
RECURSIVE FloorLog2(_)
FloorLog2(n) == IF n <= 1 THEN 0 ELSE 1 + FloorLog2(n \div 2)

\* getBiggestMask rounding the number of bits down.
getBiggestMaskRoundingDown(mask, count) == mask + FloorLog2(count)

getBiggestMask(mask, count) == mask + CeilLog2(count)

getBiggestMaskThrows(mask, count) == getBiggestMask(mask, count) > 32

divideCidrError(cidr, count, mask) ==
    IF getBiggestMaskThrows(cidr.prefix, count) THEN "AddressSpaceExhausted"
    ELSE IF IsDefined(mask) /\ mask[1] < getBiggestMask(cidr.prefix, count) THEN "PrefixTooWide"
    ELSE IF IsDefined(mask) /\ mask[1] > 32 THEN "InvalidPrefixLength"
    ELSE ""

divideCidr(cidr, count, mask) ==
    LET p == IF IsDefined(mask) THEN mask[1] ELSE getBiggestMask(cidr.prefix, count)
    IN  [op |-> "literal",
         blocks |-> [i \in 1..count |-> Block(cidr.base + (i - 1) * 2 ^ (32 - p), p)]]

(***************************************************************************)
(* Fn.cidr / Fn.select: deferred intrinsics, kept symbolic by the planner  *)
(* and resolved by the provisioning layer.                                 *)
(***************************************************************************)
FnCidr(ipBlock, count, cidrBits) ==
    [op |-> "cidr", ipBlock |-> ipBlock, count |-> count, cidrBits |-> cidrBits]
FnSelect(index, list) == [op |-> "select", index |-> index, list |-> list]
VpcCidrToken(netmask) == [op |-> "vpcCidr", netmask |-> netmask]

RECURSIVE ResolveBlock(_)
RECURSIVE ResolveList(_)
ResolveList(t) ==
    IF t.op = "literal" THEN t.blocks
    ELSE LET parent == ResolveBlock(t.ipBlock)
         IN  IF parent.op = "error" THEN <<>>
             ELSE [i \in 1..t.count |->
                      Block(parent.base + (i - 1) * 2 ^ t.cidrBits, 32 - t.cidrBits)]

ResolveBlock(b) ==
    IF b.op = "block" \/ b.op = "error" THEN b
    ELSE IF b.op = "vpcCidr" THEN Block(VpcBase, b.netmask)
    ELSE LET list == ResolveList(b.list)
         IN  IF b.index + 1 <= Len(list) THEN list[b.index + 1] ELSE NoBlock

\* The number of blocks a partition (literal or deferred) holds.
PartCount(t) == IF t.op = "literal" THEN Len(t.blocks) ELSE t.count
\* The prefix length of the blocks of a partition.
PartPrefix(t) == IF t.op = "literal" THEN t.blocks[1].prefix ELSE 32 - t.cidrBits

(***************************************************************************)
(* TieredSubnets                                                           *)
(***************************************************************************)
Subnet(name, az, cidrMask) == [name |-> name, availabilityZone |-> az, cidrMask |-> cidrMask]

PairsDistinct(r) ==
    \A i, j \in 1..Len(r) :
        (r[i].name = r[j].name /\ r[i].availabilityZone = r[j].availabilityZone) => i = j

\* requestedSubnets lists of AllocateCidrRequest: every (tier, zone) pair at most once.
RECURSIVE RequestsOfLen(_)
RequestsOfLen(n) ==
    IF n = 0 THEN {<<>>}
    ELSE {s \in {Append(r, Subnet(t, z, m)) :
                    r \in RequestsOfLen(n - 1), t \in Tiers, z \in Zones, m \in CidrMasks} :
            PairsDistinct(s)}

Requests == UNION {RequestsOfLen(n) : n \in 1..MaxSubnets}

\* What getCidrOrIpamConfiguration can hand the constructor.
ProviderConfigs ==
    {[cidrDetails |-> Some([cidr |-> Block(VpcBase, p), netmask |-> p]), ipamDetails |-> Undefined] :
        p \in SourcePrefixes}
    \cup {[cidrDetails |-> Undefined, ipamDetails |-> Some([ipamPool |-> Some("pool"), netmask |-> n])] :
        n \in {Undefined} \cup {Some(p) : p \in SourcePrefixes}}
    \cup {[cidrDetails |-> Undefined, ipamDetails |-> Undefined]}

NotConstructed ==
    [state |-> "none", ipamOptions |-> Undefined, ipamPool |-> Undefined,
     netmask |-> Undefined, tierMask |-> Undefined]

\* A constructor whose CIDR branch also reports the block's prefix length as
\* ipv4NetmaskLength.
TieredSubnetsConstructorCidrWithNetmask(config, tierMask) ==
    IF IsDefined(config.cidrDetails) THEN
        [state |-> "built",
         ipamOptions |-> Some([cidrBlock |-> Some(config.cidrDetails[1].cidr),
                               ipv4IpamPoolId |-> Undefined,
                               ipv4NetmaskLength |-> Some(config.cidrDetails[1].netmask)]),
         ipamPool |-> Undefined,
         netmask |-> Some(config.cidrDetails[1].netmask),
         tierMask |-> tierMask]
    ELSE IF IsDefined(config.ipamDetails) THEN
        [state |-> "built",
         ipamOptions |-> Some([cidrBlock |-> Undefined,
                               ipv4IpamPoolId |-> config.ipamDetails[1].ipamPool,
                               ipv4NetmaskLength |-> config.ipamDetails[1].netmask]),
         ipamPool |-> config.ipamDetails[1].ipamPool,
         netmask |-> config.ipamDetails[1].netmask,
         tierMask |-> tierMask]
    ELSE [NotConstructed EXCEPT !.state = "failed"]

TieredSubnetsConstructor(config, tierMask) ==
    IF IsDefined(config.cidrDetails) THEN
        [state |-> "built",
         ipamOptions |-> Some([cidrBlock |-> Some(config.cidrDetails[1].cidr),
                               ipv4IpamPoolId |-> Undefined,
                               ipv4NetmaskLength |-> Undefined]),
         ipamPool |-> Undefined,
         netmask |-> Some(config.cidrDetails[1].netmask),
         tierMask |-> tierMask]
    ELSE IF IsDefined(config.ipamDetails) THEN
        [state |-> "built",
         ipamOptions |-> Some([cidrBlock |-> Undefined,
                               ipv4IpamPoolId |-> config.ipamDetails[1].ipamPool,
                               ipv4NetmaskLength |-> config.ipamDetails[1].netmask]),
         ipamPool |-> config.ipamDetails[1].ipamPool,
         netmask |-> config.ipamDetails[1].netmask,
         tierMask |-> tierMask]
    ELSE [NotConstructed EXCEPT !.state = "failed"]

allocateVpcCidr(self) == self.ipamOptions[1]

\* The first error raised while the tiers are processed in order ("" when none).
RECURSIVE FirstError(_)
FirstError(errs) ==
    IF errs = <<>> THEN ""
    ELSE IF Head(errs) # "" THEN Head(errs) ELSE FirstError(Tail(errs))

Threw(error) ==
    [status |-> error, tiers |-> <<>>, azs |-> <<>>, tierNetworks |-> Undefined,
     subnetNetworks |-> <<>>, allocatedSubnets |-> <<>>]

TierNames(requestedSubnets) == Distinct(Map(requestedSubnets, LAMBDA x : x.name))
AzNames(requestedSubnets) == Distinct(Map(requestedSubnets, LAMBDA x : x.availabilityZone))
TierMaskBits(requestedSubnets, tier) ==
    Distinct(Map(Filter(requestedSubnets, tier), LAMBDA x : x.cidrMask))

\* Lines 87-119, one tier of the deferred mode: the error it raises ("" when none).
IpamTierError(requestedSubnets, effectiveTierMask, tier) ==
    LET tierSubnets == Filter(requestedSubnets, tier)
        subnetMask == TierMaskBits(requestedSubnets, tier)
    IN  IF getBiggestMaskThrows(effectiveTierMask, Len(tierSubnets)) THEN "AddressSpaceExhausted"
        ELSE IF Len(subnetMask) > 1 THEN "InconsistentSubnetSize"
        ELSE IF Truthy(subnetMask[1])
                /\ subnetMask[1][1] > getBiggestMask(effectiveTierMask, Len(tierSubnets))
             THEN "SubnetMaskTooNarrow"
        ELSE ""

\* Lines 90-114, one tier of the deferred mode: the partition of its block.
IpamSubnetNetworks(requestedSubnets, effectiveTierMask, tierNetworks, tier, tIdx) ==
    LET tierNetwork == FnSelect(tIdx, tierNetworks)
        tierSubnets == Filter(requestedSubnets, tier)
        subnetMask == TierMaskBits(requestedSubnets, tier)
        biggestSubnetMask == getBiggestMask(effectiveTierMask, Len(tierSubnets))
        effectiveSubnetMask == IF IsDefined(subnetMask[1]) THEN subnetMask[1][1]
                               ELSE biggestSubnetMask
    IN  FnCidr(tierNetwork, Len(tierSubnets), 32 - effectiveSubnetMask)

\* allocateSubnetsCidrIpam without the test of lines 67-72, an undefined
\* ipv4NetmaskLength counting as 0.
allocateSubnetsCidrIpamNoNetmaskCheck(self, vpcCidr, requestedSubnets) ==
    LET tiers == TierNames(requestedSubnets)
        azs == AzNames(requestedSubnets)
        netmaskLength == IF IsDefined(self.ipamOptions[1].ipv4NetmaskLength)
                         THEN self.ipamOptions[1].ipv4NetmaskLength ELSE Some(0)
    IN  IF getBiggestMaskThrows(netmaskLength[1], Len(tiers)) THEN Threw("AddressSpaceExhausted")
        ELSE
        LET biggestMaskTier == getBiggestMask(netmaskLength[1], Len(tiers))
        IN  IF Truthy(self.tierMask) /\ self.tierMask[1] > biggestMaskTier
            THEN Threw("TierMaskTooNarrow")
            ELSE
            LET effectiveTierMask == IF IsDefined(self.tierMask) THEN self.tierMask[1]
                                     ELSE biggestMaskTier
                tierNetworks == FnCidr(vpcCidr, Len(tiers), 32 - effectiveTierMask)
                error == FirstError([i \in 1..Len(tiers) |->
                            IpamTierError(requestedSubnets, effectiveTierMask, tiers[i])])
                subnetNetworks == [i \in 1..Len(tiers) |->
                    IpamSubnetNetworks(requestedSubnets, effectiveTierMask, tierNetworks,
                                       tiers[i], i - 1)]
                networkMap == [i \in 1..Len(tiers) |->
                                 [j \in 1..Len(azs) |-> FnSelect(j - 1, subnetNetworks[i])]]
            IN  IF error # "" THEN Threw(error)
                ELSE [status |-> "ok", tiers |-> tiers, azs |-> azs,
                      tierNetworks |-> Some(tierNetworks),
                      subnetNetworks |-> subnetNetworks,
                      allocatedSubnets |-> Map(requestedSubnets, LAMBDA x :
                          networkMap[IndexOf(tiers, x.name)][IndexOf(azs, x.availabilityZone)])]

\* allocateSubnetsCidrIpam handing back, when a tier fails, what networkMap holds
\* for the tiers processed before it.
allocateSubnetsCidrIpamPartial(self, vpcCidr, requestedSubnets) ==
    LET tiers == TierNames(requestedSubnets)
        azs == AzNames(requestedSubnets)
        netmaskLength == self.ipamOptions[1].ipv4NetmaskLength
    IN  IF ~IsDefined(netmaskLength) THEN Threw("MissingNetmask")
        ELSE IF getBiggestMaskThrows(netmaskLength[1], Len(tiers)) THEN Threw("AddressSpaceExhausted")
        ELSE
        LET biggestMaskTier == getBiggestMask(netmaskLength[1], Len(tiers))
        IN  IF Truthy(self.tierMask) /\ self.tierMask[1] > biggestMaskTier
            THEN Threw("TierMaskTooNarrow")
            ELSE
            LET effectiveTierMask == IF IsDefined(self.tierMask) THEN self.tierMask[1]
                                     ELSE biggestMaskTier
                tierNetworks == FnCidr(vpcCidr, Len(tiers), 32 - effectiveTierMask)
                errs == [i \in 1..Len(tiers) |->
                            IpamTierError(requestedSubnets, effectiveTierMask, tiers[i])]
                error == FirstError(errs)
                done == SelectSeq(requestedSubnets, LAMBDA x :
                            \A i \in 1..IndexOf(tiers, x.name) : errs[i] = "")
                subnetNetworks == [i \in 1..Len(tiers) |->
                    IpamSubnetNetworks(requestedSubnets, effectiveTierMask, tierNetworks,
                                       tiers[i], i - 1)]
                networkMap == [i \in 1..Len(tiers) |->
                                 [j \in 1..Len(azs) |-> FnSelect(j - 1, subnetNetworks[i])]]
            IN  [status |-> IF error # "" THEN error ELSE "ok", tiers |-> tiers, azs |-> azs,
                 tierNetworks |-> Some(tierNetworks),
                 subnetNetworks |-> subnetNetworks,
                 allocatedSubnets |-> Map(done, LAMBDA x :
                     networkMap[IndexOf(tiers, x.name)][IndexOf(azs, x.availabilityZone)])]

allocateSubnetsCidrIpam(self, vpcCidr, requestedSubnets) ==
    LET tiers == TierNames(requestedSubnets)
        azs == AzNames(requestedSubnets)
        netmaskLength == self.ipamOptions[1].ipv4NetmaskLength
    IN  IF ~IsDefined(netmaskLength) THEN Threw("MissingNetmask")
        ELSE IF getBiggestMaskThrows(netmaskLength[1], Len(tiers)) THEN Threw("AddressSpaceExhausted")
        ELSE
        LET biggestMaskTier == getBiggestMask(netmaskLength[1], Len(tiers))
        IN  IF Truthy(self.tierMask) /\ self.tierMask[1] > biggestMaskTier
            THEN Threw("TierMaskTooNarrow")
            ELSE
            LET effectiveTierMask == IF IsDefined(self.tierMask) THEN self.tierMask[1]
                                     ELSE biggestMaskTier
                tierNetworks == FnCidr(vpcCidr, Len(tiers), 32 - effectiveTierMask)
                error == FirstError([i \in 1..Len(tiers) |->
                            IpamTierError(requestedSubnets, effectiveTierMask, tiers[i])])
                subnetNetworks == [i \in 1..Len(tiers) |->
                    IpamSubnetNetworks(requestedSubnets, effectiveTierMask, tierNetworks,
                                       tiers[i], i - 1)]
                networkMap == [i \in 1..Len(tiers) |->
                                 [j \in 1..Len(azs) |-> FnSelect(j - 1, subnetNetworks[i])]]
            IN  IF error # "" THEN Threw(error)
                ELSE [status |-> "ok", tiers |-> tiers, azs |-> azs,
                      tierNetworks |-> Some(tierNetworks),
                      subnetNetworks |-> subnetNetworks,
                      allocatedSubnets |-> Map(requestedSubnets, LAMBDA x :
                          networkMap[IndexOf(tiers, x.name)][IndexOf(azs, x.availabilityZone)])]

\* NoIpamTierError without the maskBits.length test of lines 152-158.
NoIpamTierErrorNoSizeCheck(requestedSubnets, tierNetworks, azs, tier, tIdx) ==
    divideCidrError(tierNetworks.blocks[tIdx + 1], Len(azs),
                    TierMaskBits(requestedSubnets, tier)[1])

\* Lines 141-164, one tier of the direct mode: the error it raises ("" when none).
NoIpamTierError(requestedSubnets, tierNetworks, azs, tier, tIdx) ==
    LET maskBits == TierMaskBits(requestedSubnets, tier)
    IN  IF Len(maskBits) > 1 THEN "InconsistentSubnetSize"
        ELSE divideCidrError(tierNetworks.blocks[tIdx + 1], Len(azs), maskBits[1])

\* allocateSubnetsCidrNoIpam reading networkMap with tier and zone exchanged.
allocateSubnetsCidrNoIpamSwapped(self, vpcCidr, requestedSubnets) ==
    LET tiers == TierNames(requestedSubnets)
        azs == AzNames(requestedSubnets)
    IN  IF divideCidrError(vpcCidr, Len(tiers), self.tierMask) # ""
        THEN Threw(divideCidrError(vpcCidr, Len(tiers), self.tierMask))
        ELSE
        LET tierNetworks == divideCidr(vpcCidr, Len(tiers), self.tierMask)
            error == FirstError([i \in 1..Len(tiers) |->
                        NoIpamTierError(requestedSubnets, tierNetworks, azs, tiers[i], i - 1)])
            azNetworks == [i \in 1..Len(tiers) |->
                divideCidr(tierNetworks.blocks[i], Len(azs),
                           TierMaskBits(requestedSubnets, tiers[i])[1])]
            networkMap == [i \in 1..Len(tiers) |->
                             [j \in 1..Len(azs) |-> azNetworks[i].blocks[j]]]
        IN  IF error # "" THEN Threw(error)
            ELSE [status |-> "ok", tiers |-> tiers, azs |-> azs,
                  tierNetworks |-> Some(tierNetworks),
                  subnetNetworks |-> azNetworks,
                  allocatedSubnets |-> Map(requestedSubnets, LAMBDA x :
                      IF Len(tiers) = Len(azs)
                      THEN networkMap[IndexOf(azs, x.availabilityZone)][IndexOf(tiers, x.name)]
                      ELSE networkMap[IndexOf(tiers, x.name)][IndexOf(azs, x.availabilityZone)])]

allocateSubnetsCidrNoIpam(self, vpcCidr, requestedSubnets) ==
    LET tiers == TierNames(requestedSubnets)
        azs == AzNames(requestedSubnets)
    IN  IF divideCidrError(vpcCidr, Len(tiers), self.tierMask) # ""
        THEN Threw(divideCidrError(vpcCidr, Len(tiers), self.tierMask))
        ELSE
        LET tierNetworks == divideCidr(vpcCidr, Len(tiers), self.tierMask)
            error == FirstError([i \in 1..Len(tiers) |->
                        NoIpamTierError(requestedSubnets, tierNetworks, azs, tiers[i], i - 1)])
            azNetworks == [i \in 1..Len(tiers) |->
                divideCidr(tierNetworks.blocks[i], Len(azs),
                           TierMaskBits(requestedSubnets, tiers[i])[1])]
            networkMap == [i \in 1..Len(tiers) |->
                             [j \in 1..Len(azs) |-> azNetworks[i].blocks[j]]]
        IN  IF error # "" THEN Threw(error)
            ELSE [status |-> "ok", tiers |-> tiers, azs |-> azs,
                  tierNetworks |-> Some(tierNetworks),
                  subnetNetworks |-> azNetworks,
                  allocatedSubnets |-> Map(requestedSubnets, LAMBDA x :
                      networkMap[IndexOf(tiers, x.name)][IndexOf(azs, x.availabilityZone)])]

allocateSubnetsCidr(self, vpcCidr, requestedSubnets) ==
    IF IsDefined(self.ipamOptions[1].cidrBlock)
    THEN allocateSubnetsCidrNoIpam(self, vpcCidr, requestedSubnets)
    ELSE allocateSubnetsCidrIpam(self, vpcCidr, requestedSubnets)

\* A call that keeps the tier prefix it worked out in this.ipamOptions.ipv4NetmaskLength.
ThisAfterAllocateOverwritingNetmask(self, vpcCidr, requestedSubnets) ==
    LET netmaskLength == self.ipamOptions[1].ipv4NetmaskLength
    IN  IF IsDefined(self.ipamOptions[1].cidrBlock) \/ ~IsDefined(netmaskLength) THEN self
        ELSE IF getBiggestMaskThrows(netmaskLength[1], Len(TierNames(requestedSubnets))) THEN self
        ELSE [self EXCEPT !.ipamOptions[1].ipv4NetmaskLength =
                 Some(getBiggestMask(netmaskLength[1], Len(TierNames(requestedSubnets))))]

\* The fields of the instance after a call of allocateSubnetsCidr: neither mode
\* assigns to this.ipamOptions, this.netmask, this.tierMask or this.ipamPool, and
\* networkMap, tiers and azs are locals.
ThisAfterAllocate(self, vpcCidr, requestedSubnets) == self

\* input.vpcCidr as the Vpc passes it: the literal block, or the VPC's CIDR attribute.
VpcCidrOf(self) ==
    IF IsDefined(self.ipamOptions[1].cidrBlock) THEN self.ipamOptions[1].cidrBlock[1]
    ELSE VpcCidrToken(IF IsDefined(self.netmask) THEN self.netmask[1] ELSE 0)

NoCall == [calls |-> 0, mode |-> "none", vpcCidr |-> NoBlock, requestedSubnets |-> <<>>,
           result |-> Threw("none")]

Call(self, n, requestedSubnets) ==
    [calls |-> n,
     mode |-> IF IsDefined(self.ipamOptions[1].cidrBlock) THEN "direct" ELSE "deferred",
     vpcCidr |-> VpcCidrOf(self),
     requestedSubnets |-> requestedSubnets,
     result |-> allocateSubnetsCidr(self, VpcCidrOf(self), requestedSubnets)]

NoVpcCall == [calls |-> 0, config |-> Undefined, result |-> Undefined]

InitTiered == ts = NotConstructed /\ alloc = NoCall /\ vpcCall = NoVpcCall

Construct ==
    /\ ts.state = "none"
    /\ \E config \in ProviderConfigs, tierMask \in TierMasks :
          /\ ts' = TieredSubnetsConstructor(config, tierMask)
          /\ vpcCall' = [NoVpcCall EXCEPT !.config = Some(config)]
    /\ UNCHANGED <<alloc, poolVars, ipamVars, maskCall, shareVars>>

\* A caller asks the instance for the VPC's address options.
AllocateVpcCidr ==
    /\ ts.state = "built"
    /\ vpcCall.calls < MaxCalls
    /\ vpcCall' = [vpcCall EXCEPT !.calls = @ + 1, !.result = Some(allocateVpcCidr(ts))]
    /\ UNCHANGED <<ts, alloc, poolVars, ipamVars, maskCall, shareVars>>

\* The planning pass of a VPC: one call with the VPC's requested subnets.
AllocateSubnetsCidr ==
    /\ ts.state = "built"
    /\ alloc.calls = 0
    /\ \E requestedSubnets \in Requests :
          /\ alloc' = Call(ts, 1, requestedSubnets)
          /\ ts' = ThisAfterAllocate(ts, VpcCidrOf(ts), requestedSubnets)
    /\ UNCHANGED <<vpcCall, poolVars, ipamVars, maskCall, shareVars>>

\* The same request handed to the same instance again.
AllocateSubnetsCidrAgain ==
    /\ ts.state = "built"
    /\ alloc.calls \in 1..(MaxCalls - 1)
    /\ alloc' = Call(ts, alloc.calls + 1, alloc.requestedSubnets)
    /\ ts' = ThisAfterAllocate(ts, VpcCidrOf(ts), alloc.requestedSubnets)
    /\ UNCHANGED <<vpcCall, poolVars, ipamVars, maskCall, shareVars>>

NextTiered == Construct \/ AllocateSubnetsCidr \/ AllocateSubnetsCidrAgain
NextTieredVpc == Construct \/ AllocateVpcCidr \/ AllocateSubnetsCidr


(***************************************************************************)
(* IpamPool                                                                *)
(***************************************************************************)
ConcreteLocales == {"us-east-1", "us-west-2"}
Tokens == {"${Token[TOKEN.1]}"}
Locales == {Undefined} \cup {Some(l) : l \in ConcreteLocales \cup Tokens}
Services == {Undefined, Some("ec2")}
AMAZON == "amazon"
BYOIP == "byoip"
PublicIpSources == {Undefined, Some(AMAZON), Some(BYOIP)}
Families == {"ipv4", "ipv6"}
Cidrs == {"10.0.0.0/8", "10.1.0.0/16"}

IsUnresolved(s) == s \in Tokens

RECURSIVE CidrListsOfLen(_)
CidrListsOfLen(n) ==
    IF n = 0 THEN {<<>>} ELSE {Append(l, c) : l \in CidrListsOfLen(n - 1), c \in Cidrs}
CidrLists == UNION {CidrListsOfLen(n) : n \in 0..MaxProvisioned}

\* IIpamPoolCidrConfiguration: the inline flag and the cidr its bind() yields.
CidrConfigurations == [inline : BOOLEAN, cidr : {Undefined} \cup {Some(c) : c \in Cidrs}]
\* IpamPoolCidrConfiguration.cidr(x): an inline configuration of the literal x.
CidrConfigurationOf(x) == [inline |-> TRUE, cidr |-> Some(x)]

AddCidrToPoolOptionsSet ==
    [allowInline : {Undefined, Some(TRUE), Some(FALSE)}, configuration : CidrConfigurations]

\* provisionedCidrs handed to addChildPool: none, or a list the constructor rejects.
ChildCidrLists == {<<>>, <<"10.0.0.0/8", "10.0.0.0/8">>}

\* AddChildPoolOptions: localeKey tells whether the object has a locale key at all.
AddChildPoolOptionsSet ==
    {Undefined}
    \cup {Some([localeKey |-> FALSE, locale |-> Undefined, addressFamily |-> f,
                provisionedCidrs |-> c]) :
            f \in {Undefined} \cup {Some(x) : x \in Families}, c \in ChildCidrLists}
    \cup {Some([localeKey |-> TRUE, locale |-> l, addressFamily |-> f,
                provisionedCidrs |-> c]) :
            l \in Locales, f \in {Undefined} \cup {Some(x) : x \in Families},
            c \in ChildCidrLists}

IpamPoolProps ==
    [locale : Locales, advertiseService : Services, publicIpSource : PublicIpSources,
     family : Families, parentPool : {Undefined}, provisionedCidrs : CidrLists]

\* IpamPoolBase.addCidrToPool: a deferred IpamPoolCidr entity under the pool.
BaseAddCidrToPool(self, options, warned) ==
    [status |-> "ok", inline |-> FALSE, entity |-> TRUE, warned |-> warned,
     pool |-> [self EXCEPT !.cidrEntities = @ + 1]]

\* addCidrToPool as it would be without the duplicate check of lines 261-266.
addCidrToPoolNoDuplicateCheck(self, options) ==
    IF (IF IsDefined(options.allowInline) THEN options.allowInline[1] ELSE TRUE)
       /\ options.configuration.inline
    THEN LET cidr == options.configuration.cidr
         IN  IF ~TruthyStr(cidr) THEN BaseAddCidrToPool(self, options, TRUE)
             ELSE [status |-> "ok", inline |-> TRUE, entity |-> FALSE, warned |-> FALSE,
                   pool |-> [self EXCEPT !.provisionedCidrs = Append(@, cidr[1])]]
    ELSE BaseAddCidrToPool(self, options, FALSE)

\* addCidrToPool as it would be with the push of line 268 ahead of the duplicate check.
addCidrToPoolPushFirst(self, options) ==
    IF (IF IsDefined(options.allowInline) THEN options.allowInline[1] ELSE TRUE)
       /\ options.configuration.inline
    THEN LET cidr == options.configuration.cidr
         IN  IF ~TruthyStr(cidr) THEN BaseAddCidrToPool(self, options, TRUE)
             ELSE IF \E i \in 1..Len(self.provisionedCidrs) : self.provisionedCidrs[i] = cidr[1]
             THEN [status |-> "DuplicateCidr", inline |-> FALSE, entity |-> FALSE,
                   warned |-> FALSE,
                   pool |-> [self EXCEPT !.provisionedCidrs = Append(@, cidr[1])]]
             ELSE [status |-> "ok", inline |-> TRUE, entity |-> FALSE, warned |-> FALSE,
                   pool |-> [self EXCEPT !.provisionedCidrs = Append(@, cidr[1])]]
    ELSE BaseAddCidrToPool(self, options, FALSE)

\* addCidrToPool as it would be without the allowInline test of line 244.
addCidrToPoolIgnoringAllowInline(self, options) ==
    IF options.configuration.inline
    THEN LET cidr == options.configuration.cidr
         IN  IF ~TruthyStr(cidr) THEN BaseAddCidrToPool(self, options, TRUE)
             ELSE IF \E i \in 1..Len(self.provisionedCidrs) : self.provisionedCidrs[i] = cidr[1]
             THEN [status |-> "DuplicateCidr", inline |-> FALSE, entity |-> FALSE,
                   warned |-> FALSE, pool |-> self]
             ELSE [status |-> "ok", inline |-> TRUE, entity |-> FALSE, warned |-> FALSE,
                   pool |-> [self EXCEPT !.provisionedCidrs = Append(@, cidr[1])]]
    ELSE BaseAddCidrToPool(self, options, FALSE)

\* IpamPool.addCidrToPool: the outcome and the pool as the call leaves it.
addCidrToPool(self, options) ==
    IF (IF IsDefined(options.allowInline) THEN options.allowInline[1] ELSE TRUE)
       /\ options.configuration.inline
    THEN LET cidr == options.configuration.cidr
         IN  IF ~TruthyStr(cidr) THEN BaseAddCidrToPool(self, options, TRUE)
             ELSE IF \E i \in 1..Len(self.provisionedCidrs) : self.provisionedCidrs[i] = cidr[1]
             THEN [status |-> "DuplicateCidr", inline |-> FALSE, entity |-> FALSE,
                   warned |-> FALSE, pool |-> self]
             ELSE [status |-> "ok", inline |-> TRUE, entity |-> FALSE, warned |-> FALSE,
                   pool |-> [self EXCEPT !.provisionedCidrs = Append(@, cidr[1])]]
    ELSE BaseAddCidrToPool(self, options, FALSE)

\* Lines 235-240: the constructor registers props.provisionedCidrs one by one.
RECURSIVE RegisterProvisioned(_, _)
RegisterProvisioned(r, cidrs) ==
    IF cidrs = <<>> \/ r.status # "ok" THEN r
    ELSE RegisterProvisioned(
            addCidrToPool(r.pool, [allowInline |-> Some(TRUE),
                                   configuration |-> CidrConfigurationOf(Head(cidrs))]),
            Tail(cidrs))

\* IpamPool.constructor: the new pool, or the error the constructor throws.
IpamPoolConstructor(props) ==
    RegisterProvisioned(
        [status |-> "ok", inline |-> FALSE, entity |-> FALSE, warned |-> FALSE,
         pool |-> [locale |-> props.locale,
                   advertiseService |-> props.advertiseService,
                   publicIpSource |-> props.publicIpSource,
                   ipFamily |-> props.family,
                   parentPool |-> props.parentPool,
                   provisionedCidrs |-> <<>>,
                   cidrEntities |-> 0,
                   tagRestrictions |-> <<>>,
                   allocations |-> {}]],
        props.provisionedCidrs)

validateChildLocale(self, locale) ==
    IF TruthyStr(self.locale) /\ IsUnresolved(self.locale[1]) THEN
        IF locale = Undefined THEN TRUE
        ELSE IF IsUnresolved(locale[1]) THEN TRUE
        ELSE self.locale[1] = locale[1]
    ELSE TRUE

validateNestingSupport(self) ==
    LET service == self.advertiseService
        ipSource == self.publicIpSource
    IN  ~(TruthyStr(service) /\ ipSource = Some(BYOIP))

\* options?.locale
OptionsLocale(options) ==
    IF IsDefined(options) /\ options[1].localeKey THEN options[1].locale ELSE Undefined

\* IpamPoolBase.addChildPool with the options spread after addressConfiguration, so
\* that an addressConfiguration among the options replaces the one built from
\* this.ipFamily.
BaseAddChildPoolOptionsLast(self, selfIndex, options) ==
    IpamPoolConstructor(
        [locale |-> IF IsDefined(options) /\ options[1].localeKey
                    THEN options[1].locale ELSE self.locale,
         advertiseService |-> Undefined,
         publicIpSource |-> Undefined,
         family |-> IF IsDefined(options) /\ IsDefined(options[1].addressFamily)
                    THEN options[1].addressFamily[1] ELSE self.ipFamily,
         parentPool |-> Some(selfIndex),
         provisionedCidrs |-> IF IsDefined(options) THEN options[1].provisionedCidrs ELSE <<>>])

\* IpamPoolBase.addChildPool applied to { locale: this.locale, ...options }.
BaseAddChildPool(self, selfIndex, options) ==
    IpamPoolConstructor(
        [locale |-> IF IsDefined(options) /\ options[1].localeKey
                    THEN options[1].locale ELSE self.locale,
         advertiseService |-> Undefined,
         publicIpSource |-> Undefined,
         family |-> self.ipFamily,
         parentPool |-> Some(selfIndex),
         provisionedCidrs |-> IF IsDefined(options) THEN options[1].provisionedCidrs ELSE <<>>])

\* IpamPool.addChildPool: the error thrown, or the child pool constructed.
addChildPool(self, selfIndex, options) ==
    IF ~validateChildLocale(self, OptionsLocale(options))
    THEN [status |-> "LocaleMismatch", pool |-> self]
    ELSE IF validateNestingSupport(self)
    THEN [status |-> "NestingUnsupported", pool |-> self]
    ELSE LET r == BaseAddChildPool(self, selfIndex, options)
         IN  [status |-> r.status, pool |-> r.pool]

TagKeys == {"env", "team"}
TagValues == {"prod", "dev"}
AllocationIds == {"a"}
\* AllocateCidrFromPoolOptions: the construct scope and the cidr asked for.
AllocateCidrFromPoolOptionsSet ==
    [scope : {Undefined, Some("stack")}, cidr : {Undefined, Some("10.1.0.0/16")}]

\* key in this._tagRestrictions
HasTagKey(self, key) ==
    \E i \in 1..Len(self.tagRestrictions) : self.tagRestrictions[i].key = key

\* addTagRestriction as it would be without the test of lines 301-306: the
\* assignment of line 308 replaces the value stored for the key.
addTagRestrictionOverwriting(self, key, value) ==
    IF HasTagKey(self, key)
    THEN [status |-> "ok",
          pool |-> [self EXCEPT !.tagRestrictions =
                       [i \in 1..Len(@) |-> IF @[i].key = key
                                            THEN [key |-> key, value |-> value] ELSE @[i]]]]
    ELSE [status |-> "ok",
          pool |-> [self EXCEPT !.tagRestrictions = Append(@, [key |-> key, value |-> value])]]

\* IpamPool.addTagRestriction; _tagRestrictions keeps its keys in insertion order.
addTagRestriction(self, key, value) ==
    IF HasTagKey(self, key)
    THEN [status |-> "DuplicateTagRestrictionKey", pool |-> self]
    ELSE [status |-> "ok",
          pool |-> [self EXCEPT !.tagRestrictions = Append(@, [key |-> key, value |-> value])]]

\* allocateCidrFromPool registering the cidr it is asked for with the pool.
allocateCidrFromPoolProvisioning(self, selfIndex, id, options) ==
    LET scope == IF IsDefined(options.scope) THEN options.scope[1] ELSE "this"
    IN  IF \E a \in self.allocations : a.id = id /\ a.scope = scope
        THEN [status |-> "DuplicateConstructId", pool |-> self]
        ELSE [status |-> "ok",
              pool |-> [self EXCEPT
                          !.allocations = @ \cup {[id |-> id, scope |-> scope,
                                                    ipamPool |-> selfIndex]},
                          !.provisionedCidrs = IF IsDefined(options.cidr)
                                               THEN Append(@, options.cidr[1]) ELSE @]]

\* IpamPoolBase.allocateCidrFromPool: an IpamAllocation construct named
\* allocation-<id> under options.scope ?? this, with ipamPool: this; the
\* construct tree refuses a second child of the same name in one scope.
allocateCidrFromPool(self, selfIndex, id, options) ==
    LET scope == IF IsDefined(options.scope) THEN options.scope[1] ELSE "this"
    IN  IF \E a \in self.allocations : a.id = id /\ a.scope = scope
        THEN [status |-> "DuplicateConstructId", pool |-> self]
        ELSE [status |-> "ok",
              pool |-> [self EXCEPT
                          !.allocations = @ \cup {[id |-> id, scope |-> scope,
                                                    ipamPool |-> selfIndex]}]]

NoPoolOp == [op |-> "none", pool |-> 0, status |-> "none"]

NewPool ==
    /\ pools = <<>>
    /\ \E props \in IpamPoolProps :
          LET r == IpamPoolConstructor(props)
          IN  /\ pools' = IF r.status = "ok" THEN <<r.pool>> ELSE pools
              /\ poolOp' = [op |-> "new", pool |-> 0, status |-> r.status, props |-> props]
    /\ UNCHANGED <<tieredVars, ipamVars, maskCall, shareVars>>

AddCidrToPool ==
    \E p \in 1..Len(pools), options \in AddCidrToPoolOptionsSet :
        LET r == addCidrToPool(pools[p], options)
        IN  /\ r.entity => pools[p].cidrEntities < MaxDeferred
            /\ pools' = [pools EXCEPT ![p] = r.pool]
            /\ poolOp' = [op |-> "addCidrToPool", pool |-> p, status |-> r.status,
                          options |-> options, inline |-> r.inline, entity |-> r.entity,
                          warned |-> r.warned]
            /\ UNCHANGED <<tieredVars, ipamVars, maskCall, shareVars>>

AddChildPool ==
    \E p \in 1..Len(pools), options \in AddChildPoolOptionsSet :
        LET r == addChildPool(pools[p], p, options)
        IN  /\ r.status = "ok" => Len(pools) < MaxPools
            /\ pools' = IF r.status = "ok" THEN Append(pools, r.pool) ELSE pools
            /\ poolOp' = [op |-> "addChildPool", pool |-> p, status |-> r.status,
                          hasOptions |-> IsDefined(options),
                          localeKey |-> IsDefined(options) /\ options[1].localeKey,
                          locale |-> OptionsLocale(options),
                          addressFamily |-> IF IsDefined(options)
                                            THEN options[1].addressFamily ELSE Undefined,
                          child |-> IF r.status = "ok" THEN Len(pools) + 1 ELSE 0]
            /\ UNCHANGED <<tieredVars, ipamVars, maskCall, shareVars>>

AddTagRestriction ==
    \E p \in 1..Len(pools), key \in TagKeys, value \in TagValues :
        LET r == addTagRestriction(pools[p], key, value)
        IN  /\ pools' = [pools EXCEPT ![p] = r.pool]
            /\ poolOp' = [op |-> "addTagRestriction", pool |-> p, status |-> r.status,
                          key |-> key, value |-> value]
            /\ UNCHANGED <<tieredVars, ipamVars, maskCall, shareVars>>

AllocateCidrFromPool ==
    \E p \in 1..Len(pools), id \in AllocationIds, options \in AllocateCidrFromPoolOptionsSet :
        LET r == allocateCidrFromPool(pools[p], p, id, options)
        IN  /\ r.status = "ok" => Cardinality(pools[p].allocations) < MaxAllocations
            /\ pools' = [pools EXCEPT ![p] = r.pool]
            /\ poolOp' = [op |-> "allocateCidrFromPool", pool |-> p, status |-> r.status,
                          id |-> id, options |-> options]
            /\ UNCHANGED <<tieredVars, ipamVars, maskCall, shareVars>>

NextPoolTree == NewPool \/ AddChildPool
\* Lines 182-196, the allocationResourceTags of the CfnIPAMPool resolved: the
\* producer maps the restrictions to key/value tags, but its body is a block
\* with no return statement, so the mapped list is dropped and the producer
\* yields undefined, which leaves the property out of the resource.
RenderAllocationResourceTags(self) ==
    LET mapped == [i \in 1..Len(self.tagRestrictions) |->
                      [key |-> self.tagRestrictions[i].key,
                       value |-> self.tagRestrictions[i].value]]
        \* the statement that builds `mapped` is the whole body of the producer
        produced == Undefined
    IN  produced

\* Lines 202-215, the provisionedCidrs of the CfnIPAMPool resolved: one entry
\* per inline CIDR, the property left out when there is none.
RenderProvisionedCidrs(self) ==
    IF self.provisionedCidrs = <<>> THEN Undefined
    ELSE Some([i \in 1..Len(self.provisionedCidrs) |-> [cidr |-> self.provisionedCidrs[i]]])

\* The pool resource is resolved into its template properties.
ResolvePool ==
    \E p \in 1..Len(pools) :
        /\ poolOp' = [op |-> "resolve", pool |-> p, status |-> "ok",
                      allocationResourceTags |-> RenderAllocationResourceTags(pools[p]),
                      provisionedCidrs |-> RenderProvisionedCidrs(pools[p])]
        /\ UNCHANGED <<pools, tieredVars, ipamVars, maskCall, shareVars>>

NextPoolTags == NewPool \/ AddTagRestriction \/ AllocateCidrFromPool
NextPoolRender == NewPool \/ AddTagRestriction \/ ResolvePool
NextPoolCidr == NewPool \/ AddCidrToPool

InitPool == pools = <<>> /\ poolOp = NoPoolOp

(***************************************************************************)
(* Ipam                                                                    *)
(***************************************************************************)
\* "The scope quota is 5."
ScopeQuota == 5

Regions == {"us-east-1", "us-east-2", "us-west-2"}
ScopeIds == 1..MaxScopeIds
\* The resource discoveries of the application, by node.addr.
Discoveries == {"c8a1", "c8b2"}

RECURSIVE RegionListsOfLen(_)
RegionListsOfLen(n) ==
    IF n = 0 THEN {<<>>} ELSE {Append(l, r) : l \in RegionListsOfLen(n - 1), r \in Regions}
RegionLists == UNION {RegionListsOfLen(n) : n \in 0..MaxRegions}

NoIpam == [state |-> "none", regions |-> <<>>, scopes |-> {}, associations |-> {}]
NoIpamOp == [op |-> "none", status |-> "none"]

\* addRegion as it would be without the includes test of lines 430-435.
addRegionNoDuplicateCheck(self, region) ==
    [status |-> "ok", ipam |-> [self EXCEPT !.regions = Append(@, region)]]

\* Ipam.addRegion: the error thrown ("ok" when none) and the region list it leaves.
addRegion(self, region) ==
    IF \E i \in 1..Len(self.regions) : self.regions[i] = region
    THEN [status |-> "DuplicateRegion", ipam |-> self]
    ELSE [status |-> "ok", ipam |-> [self EXCEPT !.regions = Append(@, region)]]

\* Lines 415-417: the constructor adds props.regions one by one.
RECURSIVE AddRegions(_, _)
AddRegions(r, regions) ==
    IF regions = <<>> \/ r.status # "ok" THEN r
    ELSE AddRegions(addRegion(r.ipam, Head(regions)), Tail(regions))

IpamConstructor(regions) ==
    AddRegions([status |-> "ok", ipam |-> [NoIpam EXCEPT !.state = "built"]], regions)

\* IpamBase.addScope: a PrivateIpamScope construct named scope-<id> under the IPAM;
\* the construct tree refuses a second child of the same name.
addScope(self, id) ==
    IF id \in self.scopes
    THEN [status |-> "DuplicateConstructId", ipam |-> self]
    ELSE [status |-> "ok", ipam |-> [self EXCEPT !.scopes = @ \cup {id}]]

\* IpamBase.associateResourceDiscovery: an IpamResourceDiscoveryAssociation construct
\* named resource-discovery-<addr> under the IPAM, created on every call; the
\* construct tree refuses a second child of the same name.
associateResourceDiscovery(self, resourceDiscovery) ==
    IF resourceDiscovery \in self.associations
    THEN [status |-> "DuplicateConstructId", ipam |-> self]
    ELSE [status |-> "ok", ipam |-> [self EXCEPT !.associations = @ \cup {resourceDiscovery}]]

\* The operatingRegions producer with the regions in reverse order.
RenderOperatingRegionsReversed(self) ==
    IF self.regions = <<>> THEN Undefined
    ELSE Some([i \in 1..Len(self.regions) |->
                 [regionName |-> self.regions[Len(self.regions) + 1 - i]]])

\* Lines 378-391: operatingRegions is Lazy.uncachedAny, so every resolution runs
\* produce() on the current _regions; omitEmptyArray drops an empty list.
RenderOperatingRegions(self) ==
    IF self.regions = <<>> THEN Undefined
    ELSE Some([i \in 1..Len(self.regions) |-> [regionName |-> self.regions[i]]])

\* The regions getter: a new array ([...this._regions]), no alias of _regions.
regionsGetter(self) == [alias |-> FALSE, value |-> self.regions]

NewIpam ==
    /\ ipam.state = "none"
    /\ \E regions \in RegionLists :
          LET r == IpamConstructor(regions)
          IN  /\ ipam' = IF r.status = "ok" THEN r.ipam ELSE [NoIpam EXCEPT !.state = "failed"]
              /\ ipamOp' = [op |-> "new", status |-> r.status, regions |-> regions]
    /\ UNCHANGED <<tieredVars, poolVars, maskCall, shareVars>>

AddRegion ==
    /\ ipam.state = "built"
    /\ \E region \in Regions :
          LET r == addRegion(ipam, region)
          IN  /\ ipam' = r.ipam
              /\ ipamOp' = [op |-> "addRegion", status |-> r.status, region |-> region]
    /\ UNCHANGED <<tieredVars, poolVars, maskCall, shareVars>>

AddScope ==
    /\ ipam.state = "built"
    /\ \E id \in ScopeIds :
          LET r == addScope(ipam, id)
          IN  /\ ipam' = r.ipam
              /\ ipamOp' = [op |-> "addScope", status |-> r.status, id |-> id,
                            before |-> Cardinality(ipam.scopes)]
    /\ UNCHANGED <<tieredVars, poolVars, maskCall, shareVars>>

AssociateResourceDiscovery ==
    /\ ipam.state = "built"
    /\ \E resourceDiscovery \in Discoveries :
          LET r == associateResourceDiscovery(ipam, resourceDiscovery)
          IN  /\ ipam' = r.ipam
              /\ ipamOp' = [op |-> "associateResourceDiscovery", status |-> r.status,
                            resourceDiscovery |-> resourceDiscovery,
                            again |-> resourceDiscovery \in ipam.associations]
    /\ UNCHANGED <<tieredVars, poolVars, maskCall, shareVars>>

\* The template is resolved: the IPAM resource's operatingRegions are rendered.
ResolveOperatingRegions ==
    /\ ipam.state = "built"
    /\ ipamOp' = [op |-> "resolve", status |-> "ok",
                  operatingRegions |-> RenderOperatingRegions(ipam)]
    /\ UNCHANGED <<ipam, tieredVars, poolVars, maskCall, shareVars>>

\* A caller reads ipam.regions and pushes a region onto the array it got.
MutateRegionsCopy ==
    /\ ipam.state = "built"
    /\ \E region \in Regions :
          LET got == regionsGetter(ipam)
          IN  /\ ipam' = IF got.alias THEN [ipam EXCEPT !.regions = Append(@, region)]
                          ELSE ipam
              /\ ipamOp' = [op |-> "mutateRegions", status |-> "ok",
                            copy |-> Append(got.value, region)]
    /\ UNCHANGED <<tieredVars, poolVars, maskCall, shareVars>>

NextIpam ==
    \/ NewIpam \/ AddRegion \/ AddScope \/ AssociateResourceDiscovery
    \/ ResolveOperatingRegions \/ MutateRegionsCopy

InitIpam == ipam = NoIpam /\ ipamOp = NoIpamOp

(***************************************************************************)
(* ResourceShare: enableAutoDiscovery, the aspect it registers and the     *)
(* autoDiscover pass the aspect runs when the share is visited.            *)
(***************************************************************************)
Accounts == {"111111111111", "222222222222"}
\* The account of an environment-agnostic stack or stage: a token.
UnresolvedAccount == "${Token[AWS.AccountId]}"
TokenIsUnresolved(x) == x = UnresolvedAccount

\* The nodes findAll() can return: stages (account optional), stacks (account
\* always a string, possibly a token) and other constructs.
TreeNodes ==
    {[kind |-> "Stage", account |-> a] :
        a \in {Undefined} \cup {Some(x) : x \in Accounts \cup {UnresolvedAccount}}}
    \cup {[kind |-> "Stack", account |-> Some(x)] : x \in Accounts \cup {UnresolvedAccount}}
    \cup {[kind |-> "Construct", account |-> Undefined]}

RECURSIVE TreesOfLen(_)
TreesOfLen(n) ==
    IF n = 0 THEN {<<>>}
    ELSE {Append(t, x) : t \in TreesOfLen(n - 1), x \in TreeNodes}
Trees == UNION {TreesOfLen(n) : n \in 0..MaxNodes}

NoShare ==
    [state |-> "none", autoDiscovery |-> FALSE, aspects |-> 0, principals |-> <<>>,
     stackAccount |-> "", others |-> <<>>, enableCalls |-> 0, synthesized |-> FALSE]
NoShareOp == [op |-> "none"]

\* Lines 251-253 and 317-352: a share in a stack of the given account, with no
\* principals handed to the constructor.
ResourceShareConstructor(stackAccount, others) ==
    [NoShare EXCEPT !.state = "built", !.stackAccount = stackAccount, !.others = others]

\* this.node.root.node.findAll(): the share's own stack is one of the nodes.
findAll(self) == <<[kind |-> "Stack", account |-> Some(self.stackAccount)]>> \o self.others

addPrincipal(self, principal) == [self EXCEPT !.principals = Append(@, principal)]

\* Lines 363-373: the accounts of the stages and stacks of the tree that are
\* resolved, without the share's own, as a Set (first-seen order, no repeats).
DiscoveredAccounts(self) ==
    LET collected == SelectSeq(findAll(self), LAMBDA cur :
                         \/ /\ cur.kind = "Stage"
                            /\ TruthyStr(cur.account)
                            /\ ~TokenIsUnresolved(cur.account[1])
                         \/ /\ cur.kind = "Stack"
                            /\ ~TokenIsUnresolved(cur.account[1]))
        accounts == [i \in 1..Len(collected) |-> collected[i].account[1]]
    IN  Distinct(SelectSeq(accounts, LAMBDA x : x # self.stackAccount))

\* Lines 375-377: one principal is added per discovered account.
RECURSIVE AddPrincipals(_, _)
AddPrincipals(self, accounts) ==
    IF accounts = <<>> THEN self
    ELSE AddPrincipals(addPrincipal(self, Head(accounts)), Tail(accounts))

autoDiscover(self) == AddPrincipals(self, DiscoveredAccounts(self))

\* enableAutoDiscovery without the test of this.autoDiscovery: every call
\* registers one more aspect.
enableAutoDiscoveryUnguarded(self) ==
    [self EXCEPT !.aspects = @ + 1, !.autoDiscovery = TRUE]

\* Lines 380-391.
enableAutoDiscovery(self) ==
    IF ~self.autoDiscovery
    THEN [self EXCEPT !.aspects = @ + 1, !.autoDiscovery = TRUE]
    ELSE self

\* Synthesis invokes every aspect registered on the share once on the share
\* itself (node === this), each invocation running autoDiscover.
RECURSIVE InvokeAspects(_, _)
InvokeAspects(self, n) ==
    IF n = 0 THEN self ELSE InvokeAspects(autoDiscover(self), n - 1)

NewResourceShare ==
    /\ share.state = "none"
    /\ \E stackAccount \in Accounts \cup {UnresolvedAccount}, others \in Trees :
          share' = ResourceShareConstructor(stackAccount, others)
    /\ shareOp' = [op |-> "new"]
    /\ UNCHANGED <<tieredVars, poolVars, ipamVars, maskCall>>

AddPrincipal ==
    /\ share.state = "built"
    /\ Len(share.principals) < MaxPrincipals
    /\ \E principal \in Accounts : share' = addPrincipal(share, principal)
    /\ shareOp' = [op |-> "addPrincipal"]
    /\ UNCHANGED <<tieredVars, poolVars, ipamVars, maskCall>>

EnableAutoDiscovery ==
    /\ share.state = "built"
    /\ share.enableCalls < MaxEnableCalls
    /\ share' = [enableAutoDiscovery(share) EXCEPT !.enableCalls = @ + 1]
    /\ shareOp' = [op |-> "enableAutoDiscovery"]
    /\ UNCHANGED <<tieredVars, poolVars, ipamVars, maskCall>>

Synthesize ==
    /\ share.state = "built"
    /\ ~share.synthesized
    /\ share' = [InvokeAspects(share, share.aspects) EXCEPT !.synthesized = TRUE]
    /\ shareOp' = [op |-> "synthesize"]
    /\ UNCHANGED <<tieredVars, poolVars, ipamVars, maskCall>>

NextShare == NewResourceShare \/ AddPrincipal \/ EnableAutoDiscovery \/ Synthesize

InitShare == share = NoShare /\ shareOp = NoShareOp

(***************************************************************************)
(* getBiggestMask on its own: the arguments are drawn first, then the call   *)
(* returns the prefix length or throws.                                    *)
(***************************************************************************)
ParentPrefixes == 0..31
ChildCounts == 1..MaxChildCount

NoMaskCall == [status |-> "none", mask |-> 0, count |-> 1, result |-> 0]

MaskInputs ==
    {[status |-> "input", mask |-> m, count |-> c, result |-> 0] :
        m \in ParentPrefixes, c \in ChildCounts}

GetBiggestMask ==
    /\ maskCall.status = "input"
    /\ maskCall' =
          IF getBiggestMaskThrows(maskCall.mask, maskCall.count)
          THEN [maskCall EXCEPT !.status = "AddressSpaceExhausted"]
          ELSE [maskCall EXCEPT !.status = "ok",
                                !.result = getBiggestMask(maskCall.mask, maskCall.count)]
    /\ UNCHANGED <<tieredVars, poolVars, ipamVars, shareVars>>

NextBiggestMask == GetBiggestMask

InitMask == maskCall = NoMaskCall

Init == InitTiered /\ InitPool /\ InitIpam /\ InitMask /\ InitShare

\* The arguments of the call are drawn; the other components are idle.
InitBiggestMask == InitTiered /\ InitPool /\ InitIpam /\ InitShare /\ maskCall \in MaskInputs

SpecBiggestMask == InitBiggestMask /\ [][NextBiggestMask]_vars

SpecTiered == Init /\ [][NextTiered]_vars
SpecTieredVpc == Init /\ [][NextTieredVpc]_vars
SpecPoolTree == Init /\ [][NextPoolTree]_vars
SpecPoolCidr == Init /\ [][NextPoolCidr]_vars
SpecPoolTags == Init /\ [][NextPoolTags]_vars
SpecPoolRender == Init /\ [][NextPoolRender]_vars
SpecIpam == Init /\ [][NextIpam]_vars
SpecShare == Init /\ [][NextShare]_vars

Next ==
    NextTiered \/ NextTieredVpc \/ NextPoolTree \/ NextPoolCidr \/ NextPoolTags \/ NextPoolRender \/ NextIpam \/ NextBiggestMask \/ NextShare
Spec == Init /\ [][Next]_vars

(***************************************************************************)
(* Properties of TieredSubnets.allocateSubnetsCidr                         *)
(***************************************************************************)
Accepted == alloc.calls > 0 /\ alloc.result.status = "ok"

\* The zones requested for one tier, in first-seen order.
TierZones(requestedSubnets, tier) ==
    Distinct(Map(Filter(requestedSubnets, tier), LAMBDA x : x.availabilityZone))

\* The block handed to the i-th requested subnet, once resolved.
AssignedBlock(r, i) == ResolveBlock(r.allocatedSubnets[i])
\* The block of the tier of the i-th requested subnet, once resolved.
TierBlockOf(call, i) ==
    ResolveBlock(FnSelect(IndexOf(call.result.tiers, call.requestedSubnets[i].name) - 1,
                          call.result.tierNetworks[1]))
\* The partition of the block of the tier of the i-th requested subnet.
TierPartitionOf(call, i) ==
    call.result.subnetNetworks[IndexOf(call.result.tiers, call.requestedSubnets[i].name)]

\* C1: in either mode, every requested (tier, zone) pair of an accepted request
\* receives one of the sub-blocks its own tier's block was partitioned into: the
\* zone index selects an existing sub-block, and that block lies inside the
\* tier's block.
C1_BlockFromOwnTierPartition ==
    Accepted =>
        \A i \in 1..Len(alloc.requestedSubnets) :
            LET b == AssignedBlock(alloc.result, i)
                part == ResolveList(TierPartitionOf(alloc, i))
            IN  /\ IndexOf(alloc.result.azs, alloc.requestedSubnets[i].availabilityZone)
                       <= PartCount(TierPartitionOf(alloc, i))
                /\ b.op = "block"
                /\ \E j \in 1..Len(part) : part[j] = b
                /\ Inside(b, TierBlockOf(alloc, i))

\* C2: in either mode, the blocks an accepted request assigns to distinct
\* (tier, zone) pairs are pairwise non-overlapping and each lies inside the
\* source (VPC) block.
C2_DisjointInsideSource ==
    Accepted =>
        /\ \A i \in 1..Len(alloc.requestedSubnets) :
              Inside(AssignedBlock(alloc.result, i), ResolveBlock(alloc.vpcCidr))
        /\ \A i, j \in 1..Len(alloc.requestedSubnets) :
              i # j => ~Overlap(AssignedBlock(alloc.result, i), AssignedBlock(alloc.result, j))

\* C3: in either mode, each tier's block is partitioned into as many sub-blocks
\* as that tier has zones, and (no explicit mask given) at the prefix computed
\* from that tier's own zone count.
C3_ZoneSplitPerTier ==
    Accepted =>
        \A t \in 1..Len(alloc.result.tiers) :
            LET zones == TierZones(alloc.requestedSubnets, alloc.result.tiers[t])
                part == alloc.result.subnetNetworks[t]
                tierPrefix == PartPrefix(alloc.result.tierNetworks[1])
            IN  /\ PartCount(part) = Len(zones)
                /\ ~IsDefined(TierMaskBits(alloc.requestedSubnets, alloc.result.tiers[t])[1])
                     => PartPrefix(part) = getBiggestMask(tierPrefix, Len(zones))

\* The instance of the other mode built for the same source prefix length and tierMask.
TwinOf(self) ==
    IF IsDefined(self.ipamOptions[1].cidrBlock)
    THEN TieredSubnetsConstructor(
            [cidrDetails |-> Undefined,
             ipamDetails |-> Some([ipamPool |-> Some("pool"), netmask |-> self.netmask])],
            self.tierMask)
    ELSE TieredSubnetsConstructor(
            [cidrDetails |-> Some([cidr |-> Block(VpcBase, self.netmask[1]),
                                   netmask |-> self.netmask[1]]),
             ipamDetails |-> Undefined],
            self.tierMask)

SameOutcome(r1, r2) ==
    /\ (r1.status = "ok") <=> (r2.status = "ok")
    /\ (r1.status = "ok" /\ r2.status = "ok") =>
        /\ PartCount(r1.tierNetworks[1]) = PartCount(r2.tierNetworks[1])
        /\ PartPrefix(r1.tierNetworks[1]) = PartPrefix(r2.tierNetworks[1])
        /\ \A t \in 1..Len(r1.tiers) :
              /\ PartCount(r1.subnetNetworks[t]) = PartCount(r2.subnetNetworks[t])
              /\ PartPrefix(r1.subnetNetworks[t]) = PartPrefix(r2.subnetNetworks[t])
        /\ \A i \in 1..Len(r1.allocatedSubnets) : AssignedBlock(r1, i) = AssignedBlock(r2, i)

\* C4: the direct and the deferred mode are observably equivalent: for the same
\* source prefix length, tierMask and requested subnets both accept or both
\* reject, and when they accept the tier and zone partitions have the same
\* counts and prefix lengths and every pair gets the block at the same index.
C4_ModesEquivalent ==
    (alloc.calls > 0 /\ IsDefined(ts.netmask)) =>
        SameOutcome(alloc.result,
                    allocateSubnetsCidr(TwinOf(ts), VpcCidrOf(TwinOf(ts)), alloc.requestedSubnets))

\* Two requested subnets of the tier differ in cidrMask (a missing mask differs
\* from every explicit one).
Heterogeneous(requestedSubnets, tier) ==
    \E i, j \in 1..Len(requestedSubnets) :
        /\ requestedSubnets[i].name = tier
        /\ requestedSubnets[j].name = tier
        /\ requestedSubnets[i].cidrMask # requestedSubnets[j].cidrMask

\* The tier prefix length the deferred mode works with once its tier checks passed.
EffectiveTierMask(self, requestedSubnets) ==
    IF IsDefined(self.tierMask) THEN self.tierMask[1]
    ELSE getBiggestMask(self.netmask[1], Len(TierNames(requestedSubnets)))

\* The checks that precede the loop over the tiers all pass.
ReachesTiers(self, call) ==
    IF call.mode = "direct"
    THEN divideCidrError(call.vpcCidr, Len(TierNames(call.requestedSubnets)), self.tierMask) = ""
    ELSE /\ IsDefined(self.netmask)
         /\ ~getBiggestMaskThrows(self.netmask[1], Len(TierNames(call.requestedSubnets)))
         /\ ~(Truthy(self.tierMask)
               /\ self.tierMask[1] > getBiggestMask(self.netmask[1],
                                                    Len(TierNames(call.requestedSubnets))))

\* The error raised while the k-th tier is processed ("" when none).
TierErrorAt(self, call, k) ==
    LET tiers == TierNames(call.requestedSubnets)
    IN  IF call.mode = "direct"
        THEN NoIpamTierError(call.requestedSubnets,
                             divideCidr(call.vpcCidr, Len(tiers), self.tierMask),
                             AzNames(call.requestedSubnets), tiers[k], k - 1)
        ELSE IpamTierError(call.requestedSubnets,
                           EffectiveTierMask(self, call.requestedSubnets), tiers[k])

\* The pass gets as far as the cidrMask comparison of the k-th tier.
ReachesSizeCheck(self, call, k) ==
    /\ ReachesTiers(self, call)
    /\ \A i \in 1..(k - 1) : TierErrorAt(self, call, i) = ""
    /\ call.mode = "deferred" =>
          ~getBiggestMaskThrows(EffectiveTierMask(self, call.requestedSubnets),
                                Len(Filter(call.requestedSubnets,
                                           TierNames(call.requestedSubnets)[k])))

\* C12: in both modes a request in which two subnets of one tier differ in
\* cidrMask (one explicit and one missing included) is never accepted, and it
\* is refused with InconsistentSubnetSize as soon as the pass reaches such a
\* tier; a request whose tiers each carry one mask, or none, is never refused
\* with InconsistentSubnetSize.
C12_InconsistentSubnetSizeRejected ==
    alloc.calls > 0 =>
        LET tiers == TierNames(alloc.requestedSubnets)
        IN  /\ (\E k \in 1..Len(tiers) : Heterogeneous(alloc.requestedSubnets, tiers[k]))
                  => alloc.result.status # "ok"
            /\ \A k \in 1..Len(tiers) :
                  (Heterogeneous(alloc.requestedSubnets, tiers[k])
                   /\ ReachesSizeCheck(ts, alloc, k))
                  => alloc.result.status = "InconsistentSubnetSize"
            /\ alloc.result.status = "InconsistentSubnetSize"
                  => \E k \in 1..Len(tiers) : Heterogeneous(alloc.requestedSubnets, tiers[k])

\* A tier mixing an explicit cidrMask with a missing one was refused in direct mode.
C12_Witness ==
    /\ alloc.mode = "direct"
    /\ alloc.result.status = "InconsistentSubnetSize"
    /\ \E i, j \in 1..Len(alloc.requestedSubnets) :
          /\ alloc.requestedSubnets[i].name = alloc.requestedSubnets[j].name
          /\ alloc.requestedSubnets[i].cidrMask = Undefined
          /\ IsDefined(alloc.requestedSubnets[j].cidrMask)

\* The same in deferred mode, in the second tier processed.
C12_WitnessDeferred ==
    /\ alloc.mode = "deferred"
    /\ alloc.result.status = "InconsistentSubnetSize"
    /\ Len(TierNames(alloc.requestedSubnets)) = 2
    /\ Heterogeneous(alloc.requestedSubnets, TierNames(alloc.requestedSubnets)[2])

\* biggestChildPrefix(source prefix length, number of distinct tiers) of a call.
BiggestTierMask(self, call) ==
    getBiggestMask(self.netmask[1], Len(TierNames(call.requestedSubnets)))

\* C13: allocateSubnetsCidr fails with TierMaskTooNarrow whenever the caller's
\* tierMask is numerically larger than biggestChildPrefix(source prefix length,
\* number of distinct tiers), and never fails for this reason when the tierMask
\* is at most that value or is unset.
C13_TierMaskTooNarrow ==
    (/\ alloc.calls > 0
     /\ IsDefined(ts.netmask)
     /\ ~getBiggestMaskThrows(ts.netmask[1], Len(TierNames(alloc.requestedSubnets))))
    => (alloc.result.status = "TierMaskTooNarrow"
          <=> (IsDefined(ts.tierMask) /\ ts.tierMask[1] > BiggestTierMask(ts, alloc)))

\* The cidrMask of the first requested subnet of a tier.
TierCidrMask(requestedSubnets, tier) == Filter(requestedSubnets, tier)[1].cidrMask

\* biggestChildPrefix(effective tier prefix, number of zones in that tier).
BiggestSubnetMask(self, call, tier) ==
    getBiggestMask(EffectiveTierMask(self, call.requestedSubnets),
                   Len(TierZones(call.requestedSubnets, tier)))

\* C14: within a tier (whose subnets agree on cidrMask) an explicit cidrMask
\* numerically larger than biggestChildPrefix(effective tier prefix, number of
\* zones in that tier) is rejected with SubnetMaskTooNarrow; in an accepted
\* request the zone-split prefix of the tier is the explicit cidrMask when one
\* is given and that computed value when none is.
C14_SubnetMaskHonouredOrRejected ==
    alloc.calls > 0 =>
        \A k \in 1..Len(TierNames(alloc.requestedSubnets)) :
            LET tier == TierNames(alloc.requestedSubnets)[k]
                mask == TierCidrMask(alloc.requestedSubnets, tier)
            IN  (/\ ~Heterogeneous(alloc.requestedSubnets, tier)
                 /\ ReachesSizeCheck(ts, alloc, k)
                 /\ ~getBiggestMaskThrows(EffectiveTierMask(ts, alloc.requestedSubnets),
                                          Len(TierZones(alloc.requestedSubnets, tier))))
                => /\ (IsDefined(mask) /\ mask[1] > BiggestSubnetMask(ts, alloc, tier))
                        => alloc.result.status = "SubnetMaskTooNarrow"
                   /\ Accepted
                        => PartPrefix(alloc.result.subnetNetworks[k])
                             = IF IsDefined(mask) THEN mask[1]
                               ELSE BiggestSubnetMask(ts, alloc, tier)

ValidationFailures ==
    {"MissingNetmask", "AddressSpaceExhausted", "TierMaskTooNarrow", "InconsistentSubnetSize",
     "SubnetMaskTooNarrow", "PrefixTooWide", "InvalidPrefixLength"}

\* C15: every validation failure of allocateSubnetsCidr aborts the whole call:
\* the call ends in the error and hands back no allocation for any (tier, zone)
\* pair and no partition, also for the tiers processed before the failing one.
C15_FailureAbortsWholeCall ==
    (alloc.calls > 0 /\ alloc.result.status # "ok") =>
        /\ alloc.result.status \in ValidationFailures
        /\ alloc.result.allocatedSubnets = <<>>
        /\ alloc.result.subnetNetworks = <<>>
        /\ ~IsDefined(alloc.result.tierNetworks)

\* The second tier failed its subnet-mask check after the first tier had passed.
C15_Witness ==
    /\ alloc.calls > 0
    /\ alloc.mode = "deferred"
    /\ alloc.result.status = "SubnetMaskTooNarrow"
    /\ Len(TierNames(alloc.requestedSubnets)) = 2
    /\ TierErrorAt(ts, alloc, 1) = ""
    /\ TierErrorAt(ts, alloc, 2) = "SubnetMaskTooNarrow"

\* The position of x among the distinct values of names, in order of first appearance.
FirstSeenRank(names, x) ==
    LET first == CHOOSE i \in 1..Len(names) :
                    names[i] = x /\ \A j \in 1..(i - 1) : names[j] # x
    IN  Cardinality({names[j] : j \in 1..first})

\* The j-th block, in ascending address order, of the partition of parent at prefix.
NthBlock(parent, prefix, j) == Block(parent.base + (j - 1) * 2 ^ (32 - prefix), prefix)

\* C16: in an accepted request the i-th distinct tier name, in order of first
\* appearance in requestedSubnets, has the i-th block of the partition of the
\* source block, and within a tier the zone at position j of the first-seen
\* zone list receives the j-th sub-block of the tier's block.
C16_FirstSeenOrder ==
    Accepted =>
        \A i \in 1..Len(alloc.requestedSubnets) :
            LET tierNames == [n \in 1..Len(alloc.requestedSubnets) |->
                                 alloc.requestedSubnets[n].name]
                zoneNames == [n \in 1..Len(alloc.requestedSubnets) |->
                                 alloc.requestedSubnets[n].availabilityZone]
                t == FirstSeenRank(tierNames, alloc.requestedSubnets[i].name)
                z == FirstSeenRank(zoneNames, alloc.requestedSubnets[i].availabilityZone)
                tierBlock == NthBlock(ResolveBlock(alloc.vpcCidr),
                                      PartPrefix(alloc.result.tierNetworks[1]), t)
            IN  /\ TierBlockOf(alloc, i) = tierBlock
                /\ AssignedBlock(alloc.result, i)
                     = NthBlock(tierBlock, PartPrefix(alloc.result.subnetNetworks[t]), z)

\* The dotted-quad CIDR notation of a block.
FormatCidr(b) ==
    ToString(b.base \div 16777216) \o "." \o ToString((b.base \div 65536) % 256) \o "."
    \o ToString((b.base \div 256) % 256) \o "." \o ToString(b.base % 256)
    \o "/" \o ToString(b.prefix)

\* The allocation the specification's worked example gives for 10.0.0.0/16.
ExampleCidr(tier, zone) ==
    IF tier = "public" THEN (IF zone = "az1" THEN "10.0.0.0/18" ELSE "10.0.64.0/18")
    ELSE (IF zone = "az1" THEN "10.0.128.0/18" ELSE "10.0.192.0/18")

\* The call of the worked example: source 10.0.0.0/16 given literally, no
\* tierMask, tiers public then private, zones az1 then az2, no cidrMask.
ExampleCall ==
    /\ alloc.calls > 0
    /\ alloc.mode = "direct"
    /\ FormatCidr(alloc.vpcCidr) = "10.0.0.0/16"
    /\ ts.tierMask = Undefined
    /\ TierNames(alloc.requestedSubnets) = <<"public", "private">>
    /\ AzNames(alloc.requestedSubnets) = <<"az1", "az2">>
    /\ \A i \in 1..Len(alloc.requestedSubnets) : alloc.requestedSubnets[i].cidrMask = Undefined

\* C17: for source block 10.0.0.0/16, tiers public then private, zones az1 then
\* az2, no tierMask and no cidrMask, allocateSubnetsCidr returns
\* (public,az1)=10.0.0.0/18, (public,az2)=10.0.64.0/18, (private,az1)=10.0.128.0/18,
\* (private,az2)=10.0.192.0/18, the tier split being at /17.
C17_WorkedExample ==
    ExampleCall =>
        /\ alloc.result.status = "ok"
        /\ PartPrefix(alloc.result.tierNetworks[1]) = 17
        /\ \A i \in 1..Len(alloc.requestedSubnets) :
              FormatCidr(alloc.result.allocatedSubnets[i])
                = ExampleCidr(alloc.requestedSubnets[i].name,
                              alloc.requestedSubnets[i].availabilityZone)

\* The example's call with all four (tier, zone) pairs requested.
C17_Witness ==
    /\ ExampleCall
    /\ Len(alloc.requestedSubnets) = 4
    /\ alloc.result.status = "ok"

C19_MissingNetmaskFirst ==
    (alloc.calls > 0 /\ alloc.mode = "deferred") =>
        /\ ~IsDefined(ts.ipamOptions[1].ipv4NetmaskLength)
              <=> alloc.result.status = "MissingNetmask"
        /\ alloc.result.status = "MissingNetmask"
              => (/\ ~IsDefined(alloc.result.tierNetworks)
                  /\ alloc.result.subnetNetworks = <<>>
                  /\ alloc.result.allocatedSubnets = <<>>)
        /\ IsDefined(alloc.result.tierNetworks)
              => IsDefined(ts.ipamOptions[1].ipv4NetmaskLength)

\* An instance built from a pool without a netmask was asked to allocate four subnets.
C19_Witness ==
    /\ alloc.calls > 0
    /\ alloc.mode = "deferred"
    /\ ts.ipamPool = Some("pool")
    /\ ts.netmask = Undefined
    /\ alloc.result.status = "MissingNetmask"
    /\ Len(alloc.requestedSubnets) = 4

\* What the provider handed the constructor.
GivenCidr == IsDefined(vpcCall.config) /\ IsDefined(vpcCall.config[1].cidrDetails)
GivenIpam ==
    /\ IsDefined(vpcCall.config)
    /\ ~IsDefined(vpcCall.config[1].cidrDetails)
    /\ IsDefined(vpcCall.config[1].ipamDetails)
GivenNeither ==
    /\ IsDefined(vpcCall.config)
    /\ ~IsDefined(vpcCall.config[1].cidrDetails)
    /\ ~IsDefined(vpcCall.config[1].ipamDetails)

\* C28: the mode of a TieredSubnets is fixed by what the provider yields at
\* construction.  With CIDR details every allocateVpcCidr call returns that
\* cidrBlock and nothing else, and subnets are allocated by the direct path
\* (literal blocks cut from that CIDR).  With IPAM details every allocateVpcCidr
\* call returns the pool id and the configured netmask length and no cidrBlock,
\* and subnets are allocated by the deferred path (Fn::Cidr tokens over the
\* VPC's CIDR attribute).  With neither, construction fails.  The value of
\* allocateVpcCidr is the same on every call, before and after subnets were
\* allocated.
C28_ModeFixedAtConstruction ==
    /\ ts.state = "failed" <=> GivenNeither
    /\ ts.state = "built" <=> (GivenCidr \/ GivenIpam)
    /\ (GivenCidr /\ vpcCall.calls > 0) =>
          vpcCall.result[1] = [cidrBlock |-> Some(vpcCall.config[1].cidrDetails[1].cidr),
                               ipv4IpamPoolId |-> Undefined,
                               ipv4NetmaskLength |-> Undefined]
    /\ (GivenIpam /\ vpcCall.calls > 0) =>
          vpcCall.result[1] = [cidrBlock |-> Undefined,
                               ipv4IpamPoolId |-> vpcCall.config[1].ipamDetails[1].ipamPool,
                               ipv4NetmaskLength |-> vpcCall.config[1].ipamDetails[1].netmask]
    /\ (GivenCidr /\ alloc.calls > 0) =>
          /\ alloc.result = allocateSubnetsCidrNoIpam(
                  ts, vpcCall.config[1].cidrDetails[1].cidr, alloc.requestedSubnets)
          /\ alloc.result.status = "ok" => alloc.result.tierNetworks[1].op = "literal"
    /\ (GivenIpam /\ alloc.calls > 0) =>
          /\ alloc.result = allocateSubnetsCidrIpam(ts, alloc.vpcCidr, alloc.requestedSubnets)
          /\ alloc.vpcCidr.op = "vpcCidr"
          /\ alloc.result.status = "ok" => alloc.result.tierNetworks[1].op = "cidr"

\* An instance built from CIDR details allocated subnets and was then asked
\* twice for the VPC's address options.
C28_Witness ==
    /\ GivenCidr
    /\ alloc.calls > 0 /\ alloc.result.status = "ok"
    /\ vpcCall.calls = 2
    /\ IsDefined(vpcCall.result[1].cidrBlock)

(***************************************************************************)
(* Properties of IpamPool                                                  *)
(***************************************************************************)
Concrete(locale) == IsDefined(locale) /\ ~IsUnresolved(locale[1])
Symbolic(locale) == IsDefined(locale) /\ IsUnresolved(locale[1])

NestingUnsupportedFor(pool) ==
    TruthyStr(pool.advertiseService) /\ pool.publicIpSource = Some(BYOIP)

\* C5: addChildPool fails with NestingUnsupported exactly when the parent pool
\* has a non-empty advertiseService and publicIpSource BYOIP (the locale being
\* compatible); with every other combination it does not.
C5_NestingUnsupportedExactlyForByoipService ==
    (poolOp.op = "addChildPool" /\ poolOp.status # "LocaleMismatch") =>
        (poolOp.status = "NestingUnsupported" <=> NestingUnsupportedFor(pools[poolOp.pool]))

\* C6: addChildPool fails with LocaleMismatch, creating no child, whenever the
\* parent's locale and the requested locale are both concrete and differ.
C6_ConcreteLocalesMustMatch ==
    (/\ poolOp.op = "addChildPool"
     /\ Concrete(pools[poolOp.pool].locale)
     /\ Concrete(poolOp.locale)
     /\ pools[poolOp.pool].locale # poolOp.locale)
    => (poolOp.status = "LocaleMismatch" /\ poolOp.child = 0)

\* C7: addChildPool never fails the locale check when the parent's locale or
\* the requested child locale is symbolic (an unresolved token).
C7_SymbolicLocalePasses ==
    (/\ poolOp.op = "addChildPool"
     /\ (Symbolic(pools[poolOp.pool].locale) \/ Symbolic(poolOp.locale)))
    => poolOp.status # "LocaleMismatch"

NoDuplicates(list) == \A i, j \in 1..Len(list) : list[i] = list[j] => i = j
Holds(list, x) == \E i \in 1..Len(list) : list[i] = x

\* C8: after any sequence of constructions (with props.provisionedCidrs) and
\* addCidrToPool calls, successful or failing, a pool's provisioned CIDR list
\* holds each CIDR literal at most once.
C8_ProvisionedCidrsUnique ==
    \A p \in 1..Len(pools) : NoDuplicates(pools[p].provisionedCidrs)

\* An inline call has registered a second literal next to one the pool held.
C8_Witness ==
    /\ poolOp.op = "addCidrToPool"
    /\ poolOp.inline
    /\ Len(pools[poolOp.pool].provisionedCidrs) = 2

\* The call asks for inline registration of a literal.
InlineLiteral(options) ==
    /\ (IF IsDefined(options.allowInline) THEN options.allowInline[1] ELSE TRUE)
    /\ options.configuration.inline
    /\ TruthyStr(options.configuration.cidr)

\* C9: registering inline a CIDR literal the pool already holds fails with
\* DuplicateCidr, and the failing call leaves the pool's provisioned CIDR list
\* (and every pool) exactly as it was.
C9_DuplicateInlineRejected ==
    [][(/\ poolOp'.op = "addCidrToPool"
        /\ InlineLiteral(poolOp'.options)
        /\ Holds(pools[poolOp'.pool].provisionedCidrs, poolOp'.options.configuration.cidr[1]))
       => (poolOp'.status = "DuplicateCidr" /\ pools' = pools)]_vars

\* A duplicate inline registration was attempted and refused.
C9_Witness ==
    /\ poolOp.op = "addCidrToPool"
    /\ poolOp.status = "DuplicateCidr"
    /\ Holds(pools[poolOp.pool].provisionedCidrs, poolOp.options.configuration.cidr[1])

\* C21: a child pool added with no locale (options omitted, given without a
\* locale key, or given with locale undefined) has the parent's locale, and a
\* child pool added with an explicit locale has that locale.
C21_ChildLocaleInherited ==
    (poolOp.op = "addChildPool" /\ poolOp.status = "ok") =>
        pools[poolOp.child].locale =
            IF IsDefined(poolOp.locale) THEN poolOp.locale ELSE pools[poolOp.pool].locale

\* C22: in every pool tree built by addChildPool calls each child pool has the
\* address family of its parent, whatever addressConfiguration the child
\* options carried, and the parentPool of a new child is the pool addChildPool
\* was called on.
C22_ChildSharesFamilyAndParent ==
    /\ \A p \in 1..Len(pools) :
          IsDefined(pools[p].parentPool) =>
              /\ pools[p].parentPool[1] \in 1..Len(pools)
              /\ pools[p].ipFamily = pools[pools[p].parentPool[1]].ipFamily
    /\ (poolOp.op = "addChildPool" /\ poolOp.status = "ok") =>
          pools[poolOp.child].parentPool = Some(poolOp.pool)

\* A child was added with an addressConfiguration of the other family.
C22_Witness ==
    /\ poolOp.op = "addChildPool"
    /\ poolOp.status = "ok"
    /\ IsDefined(poolOp.addressFamily)
    /\ poolOp.addressFamily[1] # pools[poolOp.pool].ipFamily
    /\ pools[poolOp.child].ipFamily = pools[poolOp.pool].ipFamily

\* The call asks for inline registration (allowInline true or unset, inline
\* configuration) but binding yields no literal.
InlineWithoutLiteral(options) ==
    /\ (IF IsDefined(options.allowInline) THEN options.allowInline[1] ELSE TRUE)
    /\ options.configuration.inline
    /\ ~TruthyStr(options.configuration.cidr)

C24_AllocateLeavesPoolUntouched ==
    [][(poolOp'.op = "allocateCidrFromPool") =>
          /\ Len(pools') = Len(pools)
          /\ \A p \in 1..Len(pools) :
                /\ pools'[p].provisionedCidrs = pools[p].provisionedCidrs
                /\ pools'[p].tagRestrictions = pools[p].tagRestrictions
          /\ poolOp'.status = "ok" =>
                \E a \in pools'[poolOp'.pool].allocations :
                    /\ a \notin pools[poolOp'.pool].allocations
                    /\ a.id = poolOp'.id
                    /\ a.ipamPool = poolOp'.pool
                    /\ pools'[poolOp'.pool].allocations
                         = pools[poolOp'.pool].allocations \cup {a}]_vars

\* An allocation asking for a cidr was made from a pool that holds provisioned
\* CIDRs and a tag restriction.
C24_Witness ==
    /\ poolOp.op = "allocateCidrFromPool"
    /\ poolOp.status = "ok"
    /\ IsDefined(poolOp.options.cidr)
    /\ pools[poolOp.pool].provisionedCidrs # <<>>
    /\ pools[poolOp.pool].tagRestrictions # <<>>
    /\ pools[poolOp.pool].allocations # {}

\* The value stored for a key of the pool's tag restrictions (<< >> when absent).
TagValueOf(pool, key) ==
    IF \E i \in 1..Len(pool.tagRestrictions) : pool.tagRestrictions[i].key = key
    THEN Some(pool.tagRestrictions[CHOOSE i \in 1..Len(pool.tagRestrictions) :
                                      pool.tagRestrictions[i].key = key].value)
    ELSE Undefined

\* C26: addTagRestriction fails with DuplicateTagRestrictionKey when the key is
\* already present and then leaves the stored value of that key and every
\* other restriction unchanged; otherwise it stores the value under the key.
\* So no call ever changes the value a key already has: each key keeps the
\* value of its first successful addition.
C26_DuplicateTagKeyRejected ==
    [][(poolOp'.op = "addTagRestriction") =>
          LET p == poolOp'.pool
          IN  /\ IF IsDefined(TagValueOf(pools[p], poolOp'.key))
                 THEN poolOp'.status = "DuplicateTagRestrictionKey" /\ pools' = pools
                 ELSE /\ poolOp'.status = "ok"
                      /\ TagValueOf(pools'[p], poolOp'.key) = Some(poolOp'.value)
              /\ \A k \in TagKeys :
                    IsDefined(TagValueOf(pools[p], k))
                        => TagValueOf(pools'[p], k) = TagValueOf(pools[p], k)
              /\ \A i, j \in 1..Len(pools'[p].tagRestrictions) :
                    pools'[p].tagRestrictions[i].key = pools'[p].tagRestrictions[j].key
                        => i = j]_vars

\* A key was added again with another value and refused; the first value stands.
C26_Witness ==
    /\ poolOp.op = "addTagRestriction"
    /\ poolOp.status = "DuplicateTagRestrictionKey"
    /\ IsDefined(TagValueOf(pools[poolOp.pool], poolOp.key))
    /\ TagValueOf(pools[poolOp.pool], poolOp.key) # Some(poolOp.value)
    /\ Len(pools[poolOp.pool].tagRestrictions) = 2

\* C29: every tag restriction added to a pool appears, as a key/value tag,
\* in the allocationResourceTags rendered for the pool resource: the rendered
\* list has one entry per restriction, n entries after n successful additions
\* with distinct keys.
C29_TagRestrictionsRendered ==
    poolOp.op = "resolve" =>
        LET restrictions == pools[poolOp.pool].tagRestrictions
            rendered == IF IsDefined(poolOp.allocationResourceTags)
                        THEN poolOp.allocationResourceTags[1] ELSE <<>>
        IN  /\ Len(rendered) = Len(restrictions)
            /\ \A i \in 1..Len(restrictions) :
                  \E j \in 1..Len(rendered) :
                      /\ rendered[j].key = restrictions[i].key
                      /\ rendered[j].value = restrictions[i].value

(***************************************************************************)
(* Properties of Ipam                                                      *)
(***************************************************************************)
\* C10: after any sequence of addScope calls the container never has more than
\* 5 scopes: a call that would bring the total above 5 creates no scope.
C10_ScopeQuotaEnforced ==
    /\ Cardinality(ipam.scopes) <= ScopeQuota
    /\ (ipamOp.op = "addScope" /\ ipamOp.before >= ScopeQuota) => ipamOp.status # "ok"

\* C11: associateResourceDiscovery is idempotent per discovery: a second call
\* with a discovery the IPAM is already associated with succeeds, and the IPAM
\* keeps exactly one association entity for that discovery.
C11_AssociateIdempotent ==
    (ipamOp.op = "associateResourceDiscovery" /\ ipamOp.again) =>
        (ipamOp.status = "ok" /\ ipamOp.resourceDiscovery \in ipam.associations)

\* C25: after any sequence of addRegion calls, those of the constructor for
\* props.regions included, the region list holds no region twice and lists the
\* regions in the order of their successful additions; adding a registered
\* region fails with DuplicateRegion and leaves the list unchanged.
C25_RegionsOrderedAndUnique ==
    [][/\ NoDuplicates(ipam'.regions)
       /\ (ipamOp'.op = "new") =>
             /\ ipamOp'.status = "DuplicateRegion" <=> ~NoDuplicates(ipamOp'.regions)
             /\ ipamOp'.status = "ok" => ipam'.regions = ipamOp'.regions
             /\ ipamOp'.status \in {"ok", "DuplicateRegion"}
       /\ (ipamOp'.op = "addRegion") =>
             IF Holds(ipam.regions, ipamOp'.region)
             THEN ipamOp'.status = "DuplicateRegion" /\ ipam' = ipam
             ELSE ipamOp'.status = "ok"
                  /\ ipam'.regions = Append(ipam.regions, ipamOp'.region)]_vars

\* A region registered by the constructor was added again and refused.
C25_Witness ==
    /\ ipamOp.op = "addRegion"
    /\ ipamOp.status = "DuplicateRegion"
    /\ Len(ipam.regions) >= 2
    /\ ipam.regions[1] = ipamOp.region

\* The entries of a rendered list property (none when the property is omitted).
Entries(rendered) == IF IsDefined(rendered) THEN rendered[1] ELSE <<>>

\* C27: the operating regions rendered at resolution time are exactly the
\* regions registered so far, one entry per region in registration order,
\* those added by addRegion after construction included; a caller changing
\* the array the regions getter returned changes neither the registered
\* regions nor what is rendered.
C27_RenderedRegionsAreRegistered ==
    [][/\ (ipamOp'.op = "resolve") =>
             /\ Len(Entries(ipamOp'.operatingRegions)) = Len(ipam'.regions)
             /\ \A i \in 1..Len(ipam'.regions) :
                   Entries(ipamOp'.operatingRegions)[i].regionName = ipam'.regions[i]
             /\ ipam' = ipam
       /\ (ipamOp'.op = "mutateRegions") =>
             /\ ipam'.regions = ipam.regions
             /\ RenderOperatingRegions(ipam') = RenderOperatingRegions(ipam)]_vars

\* Three regions were registered, by the constructor and by later addRegion
\* calls, and all three were rendered.
C27_Witness ==
    /\ ipamOp.op = "resolve"
    /\ Len(Entries(ipamOp.operatingRegions)) = 3
    /\ Len(ipam.regions) = 3

(***************************************************************************)
(* Properties of getBiggestMask                                            *)
(***************************************************************************)
\* p is a prefix length at which parentPrefix splits into childCount blocks.
Fits(parentPrefix, childCount, p) == p >= parentPrefix /\ 2 ^ (p - parentPrefix) >= childCount

\* C20: for every parentPrefix in 0..31 and childCount >= 1, getBiggestMask
\* returns the smallest prefix p >= parentPrefix with 2^(p - parentPrefix) >=
\* childCount, and fails exactly when that p exceeds 32.
C20_BiggestMaskIsSmallestFit ==
    /\ maskCall.status = "ok" =>
          /\ Fits(maskCall.mask, maskCall.count, maskCall.result)
          /\ \A q \in maskCall.mask..(maskCall.result - 1) :
                ~Fits(maskCall.mask, maskCall.count, q)
          /\ maskCall.result <= 32
    /\ maskCall.status = "AddressSpaceExhausted" =>
          \A q \in maskCall.mask..32 : ~Fits(maskCall.mask, maskCall.count, q)
    /\ maskCall.status \in {"none", "input", "ok", "AddressSpaceExhausted"}

\* A count that is no power of two was rounded up to the next prefix length.
C20_Witness ==
    /\ maskCall.status = "ok"
    /\ maskCall.mask = 16
    /\ maskCall.count = 5
    /\ maskCall.result = 19

\* A split that needs a prefix length beyond 32 was refused.
C20_WitnessExhausted ==
    /\ maskCall.status = "AddressSpaceExhausted"
    /\ maskCall.mask = 31
    /\ maskCall.count = 3

(***************************************************************************)
(* Properties of ResourceShare                                             *)
(***************************************************************************)
\* The resolved accounts of the stages and stacks of the share's tree.
ResolvedTreeAccounts ==
    {a \in Accounts :
        \/ a = share.stackAccount
        \/ \E i \in 1..Len(share.others) :
              /\ share.others[i].kind \in {"Stage", "Stack"}
              /\ share.others[i].account = Some(a)}

====
